---- MODULE Spec2Model ----
(***************************************************************************)
(* Model of EmbedMarkdownImage.py: class MarkDownFile and its two actions, *)
(* EncodeImageInDocument (pass 1 __ReplaceImageLink, pass 2                *)
(* __ProcessOldData, pass 3 __InsertNewData) and EncodeImageFileName       *)
(* (pass 1 alone, action "EncodeNameOnly"), each between MakeBackup and    *)
(* CleanRedundantBackup as __main__ calls them.                            *)
(*                                                                         *)
(* A document is a sequence of lines.  A line is a record                  *)
(*   [toks |-> sequence of tokens, nl |-> line ends with a line separator] *)
(* and only the last line of a file can have nl = FALSE.  A token is what  *)
(* the four regular expressions of __init__ can tell apart:                *)
(*   text   foo                      no "![", no "[..]:data:image"         *)
(*   mark   ![alt]                   matches __imagePattern only           *)
(*   int    ![alt][label]            matches __imageInternalPattern        *)
(*   ext    ![alt](path)             matches __imageExternalPattern        *)
(*   data   [label]:data:image/<ext>;base64,<payload>   __dataPattern      *)
(* The tokens of a line are written with one space between them, except    *)
(* that a data token is written directly after the token before it: that   *)
(* is what __InsertNewData produces when it appends to a file whose last   *)
(* line has no line separator.                                             *)
(***************************************************************************)
EXTENDS Integers, Sequences, FiniteSets, TLC

\* ---------------------------------------------------------------- bounds
MaxLines == 3

\* ------------------------------------------------------------- constants
fileNameThreshold == 12
labelLength == 8
\* self.__config["spacelines"] as __init__ sets it
spacelinesDefault == 20

NoneVal == "None"
BaseDir == "/doc"

\* ---------------------------------------------------------------- paths
\* A path string dir/stem.ext, kept in its three parts (dir "" = no directory
\* part); the empty string is EmptyPath.
Path(dir, stem, ext) == [dir |-> dir, stem |-> stem, ext |-> ext]
EmptyPath == Path("", "", "")

\* len() of the strings that occur in paths.
StrLen(s) ==
  CASE s = "" -> 0
    [] s = "img" -> 3
    [] s = "pic0001" -> 7
    [] s = "screenshot_a" -> 12
    [] s = "gone" -> 4
    [] s = "notes" -> 5
    [] s = ".png" -> 4
    [] s = ".txt" -> 4
    [] OTHER -> labelLength

\* len(resultDict["path"])
PathLen(p) ==
  IF p.dir = "" THEN StrLen(p.stem) + StrLen(p.ext)
  ELSE StrLen(p.dir) + 1 + StrLen(p.stem) + StrLen(p.ext)

\* os.path.dirname(path)
Dirname(p) == p.dir

\* os.path.splitext(os.path.basename(path))[1]
SplitExt(p) == p.ext

\* os.path.join(dir, name), name = stem + ext
JoinPath(dir, stem, ext) == Path(dir, stem, ext)

\* os.path.realpath(os.path.join(self.__basedir, path)) for a relative path
AbsPath(p) == [root |-> BaseDir, dir |-> p.dir, stem |-> p.stem, ext |-> p.ext]

\* The relative path under which the document reaches an absolute path.
RelPath(a) == Path(a.dir, a.stem, a.ext)

\* self.__mdFileName and self.__backupFileName
DocPath == [root |-> BaseDir, dir |-> "", stem |-> "doc", ext |-> ".md"]
BackupPath ==
  [root |-> BaseDir, dir |-> "", stem |-> "doc.md.timestamp", ext |-> ".bak"]

AllowedExt == {".jpg", ".jpeg", ".png", ".gif", ".svg", ".webp", ".bmp", ".tif"}

\* ----------------------------------------------------------- file system
\* fs maps the absolute paths that exist to the bytes of the file.
Exists(fs, a) == a \in DOMAIN fs

\* os.rename(src, dst), dst not existing
Rename(fs, src, dst) ==
  [q \in (DOMAIN fs \ {src}) \cup {dst} |-> IF q = dst THEN fs[src] ELSE fs[q]]

RemoveFile(fs, a) == [q \in DOMAIN fs \ {a} |-> fs[q]]

\* hashlib.md5(bytes).hexdigest(), split at labelLength: head = first 8 chars
Md5Hex(bytes) ==
  CASE bytes = "a" -> [head |-> "0cc175b9", tail |-> "c0f1b6a831c399e269772661"]
    [] bytes = "b" -> [head |-> "92eb5ffe", tail |-> "e6ae2fec3ad71c777531578f"]
    [] bytes = "t" -> [head |-> "e358efa4", tail |-> "89f58062f10dd7316b65649e"]

\* hashlib.md5 of the bytes of a text file (the document, its backup): the
\* digest stands for the text it was taken of, two texts having the same
\* digest exactly when they are the same text.
Md5OfText(lines) == [text |-> lines]

\* "%s" of base64.b64encode(bytes), as format() renders a bytes object
B64Repr(bytes) ==
  CASE bytes = "a" -> "b'YQ=='"
    [] bytes = "b" -> "b'Yg=='"
    [] bytes = "t" -> "b'dA=='"

\* --------------------------------------------------------------- tokens
Txt(s) == [k |-> "text", s |-> s]
Mark(alt) == [k |-> "mark", alt |-> alt]
IntRef(alt, label) == [k |-> "int", alt |-> alt, label |-> label]
ExtRef(alt, path) == [k |-> "ext", alt |-> alt, path |-> path]
Data(label, ext, payload) ==
  [k |-> "data", label |-> label, ext |-> ext, payload |-> payload]

Line(toks, nl) == [toks |-> toks, nl |-> nl]

\* ------------------------------------------------- regular expressions
\* Least element of a set of indices, 0 if it is empty: re.search finds the
\* leftmost match.
Leftmost(S) == IF S = {} THEN 0 ELSE CHOOSE i \in S : \A j \in S : i <= j

\* __imagePattern  !\[([^]]*)\]
IsImageAt(toks, i) == toks[i].k \in {"mark", "int", "ext"}

\* __imageInternalPattern  !\[([^]]*)\]\[([^]]*)\] : an int token, or a
\* mark token with a data token written directly after it, ![alt][label]:data..
IsInternalAt(toks, i) ==
  \/ toks[i].k = "int"
  \/ toks[i].k = "mark" /\ i < Len(toks) /\ toks[i + 1].k = "data"

\* group(2) of the internal match at i
InternalLabel(toks, i) ==
  IF toks[i].k = "int" THEN toks[i].label ELSE toks[i + 1].label

\* __imageExternalPattern  !\[([^]]*)\]\(([^)]*)\)
IsExternalAt(toks, i) == toks[i].k = "ext"

\* __dataPattern  \[([^]]*)\]:data:image.*
IsDataAt(toks, i) == toks[i].k = "data"

\* pattern.search(line): the index of the leftmost match, 0 for None
SearchImage(toks) == Leftmost({i \in 1..Len(toks) : IsImageAt(toks, i)})
SearchInternal(toks) == Leftmost({i \in 1..Len(toks) : IsInternalAt(toks, i)})
SearchExternal(toks) == Leftmost({i \in 1..Len(toks) : IsExternalAt(toks, i)})
SearchData(toks) == Leftmost({i \in 1..Len(toks) : IsDataAt(toks, i)})

\* __imageExternalPattern.sub(repl, line): every external match is replaced
\* by the same replacement text.
SubExternal(toks, repl) ==
  [i \in 1..Len(toks) |-> IF IsExternalAt(toks, i) THEN repl ELSE toks[i]]

\* ------------------------------------------------------ __imageFileDict
\* A Python dict keeps insertion order: a sequence of [key, val] with
\* distinct keys.  val is <<>> (None) or the tuple <<abspath, ext>>.
DictKeys(d) == {d[i].key : i \in 1..Len(d)}
DictHas(d, key) == key \in DictKeys(d)
DictGet(d, key) == (CHOOSE i \in 1..Len(d) : d[i].key = key)
DictVal(d, key) == d[DictGet(d, key)].val
\* d[key] = val : an existing key keeps its position
DictSet(d, key, val) ==
  IF DictHas(d, key)
  THEN [i \in 1..Len(d) |-> IF d[i].key = key THEN [key |-> key, val |-> val] ELSE d[i]]
  ELSE Append(d, [key |-> key, val |-> val])
\* del d[key]
DictDel(d, key) == SelectSeq(d, LAMBDA e : e.key # key)

\* ------------------------------------------------------- __GetMd5Label
\* cache is __imageMd5CacheDict, a function from absolute paths to digests.
\* Returns [label, cache]; label is NoneVal when the file does not exist.
GetMd5Label(filePath, fs, cache) ==
  IF ~Exists(fs, filePath) THEN [label |-> NoneVal, cache |-> cache]
  ELSE IF filePath \in DOMAIN cache
       THEN [label |-> cache[filePath].head, cache |-> cache]
       ELSE LET hashValue == Md5Hex(fs[filePath])
            IN [label |-> hashValue.head,
                cache |-> [q \in DOMAIN cache \cup {filePath} |->
                             IF q = filePath THEN hashValue ELSE cache[q]]]

\* __GetMd5Label(filePath, labelLength=32) on a text file that exists and
\* holds lines: the whole digest.  Returns [label, cache].
GetMd5OfText(filePath, lines, cache) ==
  IF filePath \in DOMAIN cache
  THEN [label |-> cache[filePath], cache |-> cache]
  ELSE [label |-> Md5OfText(lines),
        cache |-> [q \in DOMAIN cache \cup {filePath} |->
                     IF q = filePath THEN Md5OfText(lines) ELSE cache[q]]]

\* shutil.copyfile(src, dst) of a file holding content
CopyFile(fs, dst, content) ==
  [q \in DOMAIN fs \cup {dst} |-> IF q = dst THEN content ELSE fs[q]]

\* -------------------------------------------------------- __GetImageInfo
NoInfo == [type |-> NoneVal, label |-> "", path |-> EmptyPath,
           abspath |-> AbsPath(EmptyPath), ext |-> ""]

\* Returns [info, cache].
GetImageInfo(toks, fs, cache) ==
  LET none == [info |-> NoInfo, cache |-> cache]
      int == SearchInternal(toks)
      ext == SearchExternal(toks)
  IN IF SearchImage(toks) = 0 THEN none
     ELSE IF int # 0
       THEN [info |-> [NoInfo EXCEPT !.type = "internal",
                                     !.label = InternalLabel(toks, int)],
             cache |-> cache]
     ELSE IF ext = 0 THEN none
     ELSE LET imageFilePath == toks[ext].path
              imageFileAbsPath == AbsPath(imageFilePath)
          IN IF PathLen(imageFilePath) = 0 THEN none
             ELSE IF ~Exists(fs, imageFileAbsPath) THEN none
             ELSE IF SplitExt(imageFilePath) \notin AllowedExt THEN none
             ELSE LET h == GetMd5Label(imageFileAbsPath, fs, cache)
                  IN [info |-> [type |-> "external", label |-> h.label,
                                path |-> imageFilePath,
                                abspath |-> imageFileAbsPath,
                                ext |-> SplitExt(imageFilePath)],
                      cache |-> h.cache]

\* ---------------------------------------------- pass 1 __ReplaceImageLink
\* One iteration of "for line in mdFile" on line ln, r being what
\* __GetImageInfo returned for the line.  st = [rest, out, fs, cache,
\* dict, log]: the lines not yet read, the lines printed so far, the files,
\* the two dictionaries and one log entry per line read: what the classifier said, whether the line
\* was printed, the line printed, and whether a file was renamed for it.
ReplaceClassified(st, ln, act, r) ==
  LET info == r.info
      entry == [type |-> info.type, label |-> info.label, path |-> info.path,
                printed |-> TRUE, renamed |-> FALSE, out |-> ln]
      base == [st EXCEPT !.cache = r.cache]
  IN IF info.type = NoneVal
       THEN [base EXCEPT !.out = Append(@, ln), !.log = Append(@, entry)]
     ELSE IF info.type = "internal"
       THEN [base EXCEPT
               !.dict = IF act = "EncodeFile"
                        THEN DictSet(@, info.label, <<>>) ELSE @,
               !.out = Append(@, ln), !.log = Append(@, entry)]
     ELSE IF act = "EncodeFile"
       THEN LET outputLine == [ln EXCEPT !.toks =
                                 SubExternal(@, IntRef(info.label, info.label))]
            IN [base EXCEPT
                  !.dict = DictSet(@, info.label, <<info.abspath, info.ext>>),
                  !.out = Append(@, outputLine),
                  !.log = Append(@, [entry EXCEPT !.out = outputLine])]
     ELSE IF PathLen(info.path) < fileNameThreshold
       THEN \* continue: print(outputLine) is skipped
            [base EXCEPT !.log = Append(@, [entry EXCEPT !.printed = FALSE])]
     ELSE LET imageBasedir == Dirname(info.path)
              imageFilePathNew == JoinPath(imageBasedir, info.label, info.ext)
              imageFileAbsPathNew == AbsPath(imageFilePathNew)
              doRename == ~Exists(st.fs, imageFileAbsPathNew)
              outputLine == [ln EXCEPT !.toks =
                               SubExternal(@, ExtRef(info.label, imageFilePathNew))]
          IN [base EXCEPT
                !.fs = IF doRename
                       THEN Rename(@, info.abspath, imageFileAbsPathNew) ELSE @,
                !.out = Append(@, outputLine),
                !.log = Append(@, [entry EXCEPT !.renamed = doRename,
                                                !.out = outputLine])]

\* resultDict = self.__GetImageInfo(line), then the branches on it
ReplaceLine(st, ln, act) ==
  ReplaceClassified(st, ln, act, GetImageInfo(ln.toks, st.fs, st.cache))

\* for line in mdFile: st.rest are the lines of mdFile not yet read.
RECURSIVE ReplaceLoop(_, _)
ReplaceLoop(st, act) ==
  IF st.rest = <<>> THEN st
  ELSE ReplaceLoop(ReplaceLine([st EXCEPT !.rest = Tail(@)], Head(st.rest), act),
                   act)

\* Returns [rest, out, fs, cache, dict, log], rest being empty.
ReplaceImageLinkOp(lines, fs0, cache, dict, act) ==
  ReplaceLoop([rest |-> lines, out |-> <<>>, fs |-> fs0, cache |-> cache,
               dict |-> dict, log |-> <<>>], act)

\* ------------------------------------------------ pass 2 __ProcessOldData
\* One iteration on line ln.  st = [rest, out, dict].
ProcessLine(st, ln, cfg) ==
  LET d == SearchData(ln.toks)
      keep == [st EXCEPT !.out = Append(@, ln)]
  IN IF d = 0 THEN keep
     ELSE LET imageFileLabel == ln.toks[d].label
          IN IF imageFileLabel = "" THEN keep
             ELSE IF DictHas(st.dict, imageFileLabel)
               THEN IF cfg.useOldDataFlag
                      THEN [keep EXCEPT !.dict = DictDel(@, imageFileLabel)]
                    ELSE IF DictVal(st.dict, imageFileLabel) # <<>>
                      THEN st
                    ELSE keep
             ELSE IF ~cfg.keepUselessDataFlag THEN st
             ELSE keep

\* for line in mdFile: st.rest are the lines of mdFile not yet read.
RECURSIVE ProcessLoop(_, _)
ProcessLoop(st, cfg) ==
  IF st.rest = <<>> THEN st
  ELSE ProcessLoop(ProcessLine([st EXCEPT !.rest = Tail(@)], Head(st.rest), cfg),
                   cfg)

\* Returns [rest, out, dict], rest being empty.
ProcessOldDataOp(lines, dict, cfg) ==
  ProcessLoop([rest |-> lines, out |-> <<>>, dict |-> dict], cfg)

\* ------------------------------------------------- pass 3 __InsertNewData
\* mdFile.write of one line separator at the end of the file.
WriteSep(lines, sep) ==
  IF sep = "" THEN lines
  ELSE IF lines # <<>> /\ ~lines[Len(lines)].nl
    THEN [lines EXCEPT ![Len(lines)].nl = TRUE]
  ELSE Append(lines, Line(<<>>, TRUE))

\* mdFile.write of margin = linesep * n: the first separator as WriteSep
\* writes it, each further one an empty line.
WriteSeps(lines, sep, n) ==
  IF n <= 0 THEN lines
  ELSE WriteSep(lines, sep) \o
       [k \in 1..(IF sep = "" THEN 0 ELSE n - 1) |-> Line(<<>>, TRUE)]

\* mdFile.write of a data block's text at the end of the file: it continues
\* the last line when that line has no line separator.
WriteTok(lines, tok) ==
  IF lines # <<>> /\ ~lines[Len(lines)].nl
  THEN [lines EXCEPT ![Len(lines)].toks = Append(@, tok)]
  ELSE Append(lines, Line(<<tok>>, FALSE))

\* mdData = margin + "[label]:data:image/ext;base64,data" + linesep
WriteBlock(lines, tok, sep, spacelines) ==
  WriteSep(WriteTok(WriteSeps(lines, sep, spacelines), tok), sep)

\* InsertLoop with "break" for "continue" where the image file is missing.
RECURSIVE InsertLoopStopsAtMissing(_, _, _, _, _, _)
InsertLoopStopsAtMissing(lines, dict, i, fs, sep, spacelines) ==
  IF i > Len(dict) THEN lines
  ELSE LET imageFileLabel == dict[i].key
           value == dict[i].val
       IN IF value = <<>>
            THEN InsertLoopStopsAtMissing(lines, dict, i + 1, fs, sep, spacelines)
          ELSE IF ~Exists(fs, value[1])
            THEN lines
          ELSE InsertLoopStopsAtMissing(
                 WriteBlock(lines,
                            Data(imageFileLabel, value[2], B64Repr(fs[value[1]])),
                            sep, spacelines),
                 dict, i + 1, fs, sep, spacelines)

\* for imageFileLabel, value in self.__imageFileDict.items(), from entry i on
RECURSIVE InsertLoop(_, _, _, _, _, _)
InsertLoop(lines, dict, i, fs, sep, spacelines) ==
  IF i > Len(dict) THEN lines
  ELSE LET imageFileLabel == dict[i].key
           value == dict[i].val
       IN IF value = <<>>
            THEN InsertLoop(lines, dict, i + 1, fs, sep, spacelines)
          ELSE IF ~Exists(fs, value[1])
            THEN InsertLoop(lines, dict, i + 1, fs, sep, spacelines)
          ELSE InsertLoop(
                 WriteBlock(lines,
                            Data(imageFileLabel, value[2], B64Repr(fs[value[1]])),
                            sep, spacelines),
                 dict, i + 1, fs, sep, spacelines)

InsertNewDataOp(lines, dict, fs, sep, spacelines) ==
  InsertLoop(lines, dict, 1, fs, sep, spacelines)

\* ----------------------------------------------------------- GetLinesep
\* "\n" when the file holds a line separator, "" when it holds none.
GetLinesep(lines) ==
  IF \E i \in 1..Len(lines) : lines[i].nl THEN "\n" ELSE ""

\* ------------------------------------------------------------ the inputs
\* Image files beside the document, and the bytes they hold.
FileA == Path("img", "screenshot_a", ".png")
FileB == Path("", "pic0001", ".png")
FileT == Path("", "notes", ".txt")
FileGone == Path("", "gone", ".png")
LabelA == Md5Hex("a").head
LabelB == Md5Hex("b").head
\* The path the rename-only action gives FileA.
FileAHashed == Path("img", LabelA, ".png")

MkFiles(S) == [q \in {AbsPath(e[1]) : e \in S} |->
                 (CHOOSE e \in S : AbsPath(e[1]) = q)[2]]
BaseFiles == {<<FileA, "a">>, <<FileB, "b">>, <<FileT, "t">>}
\* With and without a file already at the path the rename gives FileA.
InitialFiles ==
  { MkFiles(BaseFiles),
    MkFiles(BaseFiles \cup {<<FileAHashed, "a">>}) }

\* The lines a document is made of.  ImageLines are references to the two
\* images, as paths or as labels, and the data blocks of the two labels on
\* lines of their own.  ExtraLines are the lines the passes have nothing to
\* do for (text, the four shapes the classifier gives up on, a data block
\* with an empty label), a line with two external references and a line
\* with an external reference and, directly after it, a data block.
ImageLines ==
  { <<ExtRef("x", FileA)>>,
    <<ExtRef("x", FileB)>>,
    <<IntRef("x", LabelA), IntRef("y", LabelB)>>,
    <<Data(LabelA, ".png", "AAAA")>>,
    <<Data(LabelB, ".png", "AAAA")>> }
ExtraLines ==
  { <<Txt("foo")>>,
    <<Mark("x")>>,
    <<ExtRef("x", EmptyPath)>>,
    <<ExtRef("x", FileGone)>>,
    <<ExtRef("x", FileT)>>,
    <<Data("", ".png", "AAAA")>>,
    <<ExtRef("x", FileA), ExtRef("y", FileB)>>,
    <<ExtRef("x", FileB), Data(LabelA, ".png", "AAAA")>> }

\* A document of 1..MaxLines lines, in any order and mix of the image lines
\* and of one kind of extra line; the last line may lack its line separator.
IsDocument(d) ==
  \E n \in 1..MaxLines : \E extra \in ExtraLines :
    \E t \in [1..n -> ImageLines \cup {extra}] : \E lastNl \in BOOLEAN :
      d = [i \in 1..n |-> Line(t[i], i < n \/ lastNl)]

\* self.__config: the number of blank lines ahead of a data block, the
\* default or none, and the two flags.  backupDir is the directory of the
\* document, its default.
SpaceLinesValues == {0, spacelinesDefault}
Configs ==
  [spacelines : SpaceLinesValues, useOldDataFlag : BOOLEAN,
   keepUselessDataFlag : BOOLEAN]
\* The defaults of __init__.
DefaultConfig ==
  [spacelines |-> spacelinesDefault, useOldDataFlag |-> FALSE,
   keepUselessDataFlag |-> FALSE]

\* SetConfigDict(inputConfigDict) on self.__config = cfg
SetConfigDict(cfg, inputConfigDict) ==
  [key \in DOMAIN cfg |->
     IF key \in DOMAIN inputConfigDict THEN inputConfigDict[key] ELSE cfg[key]]

\* The inputConfigDict of the constructor: {} or a value for each option
InputConfigDicts == {[key \in {} |-> 0]} \cup Configs

\* ------------------------------------------------------------- the state
VARIABLES
  doc,                 \* the lines of the document file
  fs,                  \* the files beside it
  action,              \* --action: "EncodeFile" or "EncodeNameOnly"
  config,              \* self.__config
  linesep,             \* self.__linesep
  imageMd5CacheDict,   \* self.__imageMd5CacheDict
  imageFileDict,       \* self.__imageFileDict
  pc,                  \* the call of __main__ to run next: "backup", "pass1",
                       \* "pass2", "pass3", "clean"; "done" after the last
  run,                 \* 1 in the first invocation on the document, 2 after the second
  orig,                \* history: the document when the first invocation started
  fs0,                 \* history: the files when the first invocation started
  log,                 \* history: pass 1's log of the first invocation
  dict1,               \* history: __imageFileDict after pass 1
  doc2,                \* history: the document after pass 2
  dict2,               \* history: __imageFileDict after pass 2
  prev,                \* history: the document the first invocation left
  removed              \* history: a file was removed during the invocation

vars == <<doc, fs, action, config, linesep, imageMd5CacheDict, imageFileDict,
          pc, run, orig, fs0, log, dict1, doc2, dict2, prev, removed>>

EmptyCache == [q \in {} |-> Md5Hex("a")]

\* MarkDownFile(mdFileName, inputConfigDict), and the action that is going to
\* be run on it.  The rename-only action is run with and without a file at
\* the path it renames to.
Init ==
  /\ IsDocument(doc)
  /\ \E inputConfigDict \in InputConfigDicts :
       config = SetConfigDict(DefaultConfig, inputConfigDict)
  /\ \/ action = "EncodeFile" /\ fs = MkFiles(BaseFiles)
     \/ action = "EncodeNameOnly" /\ fs \in InitialFiles
  /\ linesep = GetLinesep(doc)
  /\ imageMd5CacheDict = EmptyCache
  /\ imageFileDict = <<>>
  /\ pc = "backup"
  /\ run = 1
  /\ orig = doc
  /\ fs0 = fs
  /\ log = <<>>
  /\ dict1 = <<>>
  /\ doc2 = <<>>
  /\ dict2 = <<>>
  /\ prev = <<>>
  /\ removed = FALSE

\* SetConfig(key, value), between construction and the first call
SetConfig ==
  /\ pc = "backup" /\ run = 1
  /\ \/ \E value \in SpaceLinesValues : config' = [config EXCEPT !.spacelines = value]
     \/ \E value \in BOOLEAN : config' = [config EXCEPT !.useOldDataFlag = value]
     \/ \E value \in BOOLEAN : config' = [config EXCEPT !.keepUselessDataFlag = value]
  /\ UNCHANGED <<doc, fs, action, linesep, imageMd5CacheDict, imageFileDict, pc,
                 run, orig, fs0, log, dict1, doc2, dict2, prev, removed>>

\* markDownFile.MakeBackup(), the first call of __main__ for either action.
\* backupDir is the directory of the document, which exists.
MakeBackup ==
  /\ pc = "backup"
  /\ fs' = CopyFile(fs, BackupPath, doc)
  /\ pc' = "pass1"
  /\ UNCHANGED <<doc, action, config, linesep, imageMd5CacheDict, imageFileDict,
                 run, orig, fs0, log, dict1, doc2, dict2, prev, removed>>

\* markDownFile.CleanRedundantBackup(), the last call of __main__ for either
\* action: the backup is removed when its digest is that of the document.
CleanRedundantBackup ==
  /\ pc = "clean"
  /\ IF Exists(fs, BackupPath)
     THEN \E backupMd5 \in {GetMd5OfText(BackupPath, fs[BackupPath], imageMd5CacheDict)} :
            \E outputMd5 \in {GetMd5OfText(DocPath, doc, backupMd5.cache)} :
              /\ imageMd5CacheDict' = outputMd5.cache
              /\ fs' = IF backupMd5.label = outputMd5.label
                       THEN RemoveFile(fs, BackupPath) ELSE fs
     ELSE UNCHANGED <<fs, imageMd5CacheDict>>
  /\ pc' = "done"
  /\ UNCHANGED <<doc, action, config, linesep, imageFileDict, run, orig, fs0,
                 log, dict1, doc2, dict2, prev, removed>>

\* EncodeImageInDocument, first call: self.__ReplaceImageLink()
ReplaceImageLink ==
  /\ pc = "pass1" /\ action = "EncodeFile"
  /\ \E r \in {ReplaceImageLinkOp(doc, fs, imageMd5CacheDict, imageFileDict, "EncodeFile")} :
        /\ doc' = r.out
        /\ fs' = r.fs
        /\ imageMd5CacheDict' = r.cache
        /\ imageFileDict' = r.dict
        /\ log' = r.log
        /\ dict1' = r.dict
  /\ pc' = "pass2"
  /\ UNCHANGED <<action, config, linesep, run, orig, fs0, doc2, dict2, prev, removed>>

\* EncodeImageFileName: self.__ReplaceImageLink(action="EncodeNameOnly")
EncodeImageFileName ==
  /\ pc = "pass1" /\ action = "EncodeNameOnly"
  /\ \E r \in {ReplaceImageLinkOp(doc, fs, imageMd5CacheDict, imageFileDict, "EncodeNameOnly")} :
        /\ doc' = r.out
        /\ fs' = r.fs
        /\ imageMd5CacheDict' = r.cache
        /\ imageFileDict' = r.dict
        /\ log' = r.log
        /\ dict1' = r.dict
  /\ pc' = "clean"
  /\ UNCHANGED <<action, config, linesep, run, orig, fs0, doc2, dict2, prev, removed>>

\* EncodeImageInDocument, second call: self.__ProcessOldData()
ProcessOldData ==
  /\ pc = "pass2"
  /\ \E r \in {ProcessOldDataOp(doc, imageFileDict, config)} :
        /\ doc' = r.out
        /\ imageFileDict' = r.dict
        /\ doc2' = r.out
        /\ dict2' = r.dict
  /\ pc' = "pass3"
  /\ UNCHANGED <<fs, action, config, linesep, imageMd5CacheDict, run, orig, fs0,
                 log, dict1, prev, removed>>

\* The environment removes an image file of the mapping after pass 1 read it
\* and before pass 3 reads it again.
RemoveImageFile ==
  /\ pc = "pass3" /\ run = 1
  /\ \E i \in 1..Len(imageFileDict) :
       /\ imageFileDict[i].val # <<>>
       /\ Exists(fs, imageFileDict[i].val[1])
       /\ fs' = RemoveFile(fs, imageFileDict[i].val[1])
  /\ removed' = TRUE
  /\ UNCHANGED <<doc, action, config, linesep, imageMd5CacheDict, imageFileDict,
                 pc, run, orig, fs0, log, dict1, doc2, dict2, prev>>

\* EncodeImageInDocument, third call: self.__InsertNewData()
InsertNewData ==
  /\ pc = "pass3"
  /\ doc' = InsertNewDataOp(doc, imageFileDict, fs, linesep, config.spacelines)
  /\ pc' = "clean"
  /\ UNCHANGED <<fs, action, config, linesep, imageMd5CacheDict, imageFileDict,
                 run, orig, fs0, log, dict1, doc2, dict2, prev, removed>>

\* self.__ProcessOldData() on what pass 1 left: p1 = [out, dict, cache, ..].
\* Returns [out, dict, cache].
WithCache(p2, cache) == [out |-> p2.out, dict |-> p2.dict, cache |-> cache]
ProcessAfter(p1, cfg) ==
  WithCache(ProcessOldDataOp(p1.out, p1.dict, cfg), p1.cache)

\* self.__InsertNewData() on what pass 2 left: p2 = [out, dict, cache].
InsertAfter(p2, files, sep, cfg) ==
  [p2 EXCEPT !.out = InsertNewDataOp(@, p2.dict, files, sep, cfg.spacelines)]

\* EncodeImageInDocument as one step: the three passes of a new
\* MarkDownFile object on lines, with no file changing in between.
\* Returns [out, dict, cache].
EncodeImageInDocumentOp(lines, files, cfg) ==
  InsertAfter(ProcessAfter(
                ReplaceImageLinkOp(lines, files, EmptyCache, <<>>, "EncodeFile"), cfg),
              files, GetLinesep(lines), cfg)

\* The embed action is invoked a second time on the document the first
\* invocation left, with the same flags and the same files.
EncodeImageInDocumentAgain ==
  /\ pc = "done" /\ run = 1 /\ action = "EncodeFile" /\ ~removed
  /\ \E r \in {EncodeImageInDocumentOp(doc, fs, config)} :
        /\ doc' = r.out
        /\ imageFileDict' = r.dict
        /\ imageMd5CacheDict' = r.cache
  /\ linesep' = GetLinesep(doc)
  /\ prev' = doc
  /\ run' = 2
  /\ UNCHANGED <<fs, action, config, pc, orig, fs0, log, dict1, doc2, dict2, removed>>

Next ==
  \/ SetConfig
  \/ MakeBackup
  \/ ReplaceImageLink
  \/ EncodeImageFileName
  \/ ProcessOldData
  \/ RemoveImageFile
  \/ InsertNewData
  \/ CleanRedundantBackup
  \/ EncodeImageInDocumentAgain

Spec == Init /\ [][Next]_vars

\* __main__ with --action EncodeFile: lines 388-391
InitEmbed == Init /\ action = "EncodeFile"
NextEmbed ==
  \/ SetConfig
  \/ MakeBackup
  \/ ReplaceImageLink
  \/ ProcessOldData
  \/ RemoveImageFile
  \/ InsertNewData
  \/ CleanRedundantBackup
  \/ EncodeImageInDocumentAgain
SpecEmbed == InitEmbed /\ [][NextEmbed]_vars

\* __main__ with --action EncodeNameOnly: lines 392-395
InitRename == Init /\ action = "EncodeNameOnly"
NextRename ==
  \/ SetConfig
  \/ MakeBackup
  \/ EncodeImageFileName
  \/ CleanRedundantBackup
SpecRename == InitRename /\ [][NextRename]_vars

\* ====================================================================
\* The claims.  done: the first invocation has finished.
\* ====================================================================
EmbedDone == pc = "done" /\ run = 1 /\ action = "EncodeFile"
RenameDone == pc = "done" /\ action = "EncodeNameOnly"

\* The tokens of a document, line after line.
RECURSIVE Flatten(_)
Flatten(lines) ==
  IF lines = <<>> THEN <<>> ELSE Head(lines).toks \o Flatten(Tail(lines))

\* a is a prefix of b
IsPrefix(a, b) == Len(a) <= Len(b) /\ SubSeq(b, 1, Len(a)) = a

\* The token sequences a occur among the lines b, in the same order.
RECURSIVE OccurInOrder(_, _)
OccurInOrder(a, b) ==
  \/ a = <<>>
  \/ /\ b # <<>>
     /\ IF Head(a) = Head(b).toks THEN OccurInOrder(Tail(a), Tail(b))
        ELSE OccurInOrder(a, Tail(b))

\* Each of a is the beginning of a line of b, in the same order.
RECURSIVE BeginInOrder(_, _)
BeginInOrder(a, b) ==
  \/ a = <<>>
  \/ /\ b # <<>>
     /\ IF IsPrefix(Head(a), Head(b).toks) THEN BeginInOrder(Tail(a), Tail(b))
        ELSE BeginInOrder(a, Tail(b))

\* The token sequences of the lines of a document at the indices in S.
Pick(lines, S) ==
  LET idx == SelectSeq([i \in 1..Len(lines) |-> i], LAMBDA i : i \in S)
  IN [k \in 1..Len(idx) |-> lines[idx[k]].toks]

\* A data block line and its label, as __dataPattern reads the line.
IsDataLine(ln) == SearchData(ln.toks) # 0
DataLabel(ln) == ln.toks[SearchData(ln.toks)].label
DataLabels(lines) ==
  {DataLabel(lines[k]) : k \in {k \in 1..Len(lines) : IsDataLine(lines[k])}}

\* The labels of all embedded references ![..][label] of a document.
RefLabels(lines) ==
  UNION { {InternalLabel(lines[k].toks, j) :
             j \in {j \in 1..Len(lines[k].toks) : IsInternalAt(lines[k].toks, j)}} :
          k \in 1..Len(lines) }

\* An external reference whose path resolves, in files, to an existing file
\* with an allowed extension; the content-hash label of that file.
Resolves(tok, files) ==
  /\ tok.k = "ext"
  /\ PathLen(tok.path) > 0
  /\ Exists(files, AbsPath(tok.path))
  /\ SplitExt(tok.path) \in AllowedExt
HashLabel(tok, files) == Md5Hex(files[AbsPath(tok.path)]).head

\* The labels of the images a document references by path.
ExternalLabels(lines, files) ==
  UNION { {HashLabel(lines[k].toks[j], files) :
             j \in {j \in 1..Len(lines[k].toks) : Resolves(lines[k].toks[j], files)}} :
          k \in 1..Len(lines) }

\* The data block the appender writes for label from the file at abspath.
BlockOf(label, abspath, files) ==
  Data(label, abspath.ext, B64Repr(files[abspath]))

\* --------------------------------------------------------------------
\* C1: in the rename-only action, every line whose external reference has
\* a path shorter than 12 characters is still in the document after the
\* pass, verbatim and at the same position, and no file is renamed for it.
C1_ShortPathLineUntouched ==
  RenameDone =>
    \A i \in 1..Len(orig) :
      (log[i].type = "external" /\ PathLen(log[i].path) < fileNameThreshold) =>
        /\ i <= Len(doc)
        /\ doc[i] = orig[i]
        /\ ~log[i].renamed

\* --------------------------------------------------------------------
\* C2: running the embed action a second time on the document the first
\* run left, with the same flags and the same image files, leaves the
\* document's line sequence exactly as the first run left it.
C2_EmbedIdempotent == run = 2 => doc = prev

\* --------------------------------------------------------------------
\* C3: for an external reference ![x](P) of the document where P resolves
\* to an existing file with an allowed extension E and content-hash label
\* L, with no data block and no embedded reference for L in the document
\* before the run, the embed action rewrites that reference to ![L][L] and
\* appends after all existing lines exactly one data block line
\* [L]:data:image/E;base64,<data>.
C3_EmbedRewritesAndAppends ==
  (EmbedDone /\ ~removed) =>
    \A i \in 1..Len(orig) : \A j \in 1..Len(orig[i].toks) :
      LET tok == orig[i].toks[j] IN
      (/\ Resolves(tok, fs0)
       /\ HashLabel(tok, fs0) \notin DataLabels(orig)
       /\ HashLabel(tok, fs0) \notin RefLabels(orig)) =>
        LET L == HashLabel(tok, fs0)
            block == <<BlockOf(L, AbsPath(tok.path), fs0)>>
            at == {k \in 1..Len(doc) : doc[k].toks = block}
        IN /\ log[i].out.toks[j] = IntRef(L, L)
           /\ Cardinality(at) = 1
           /\ \A k \in at : k > Len(doc2)

\* --------------------------------------------------------------------
\* C4: with useOldDataFlag = true, every data block of the document whose
\* label is the label of a referenced external image is still in the
\* document, unchanged, after the embed action; pass 2 has removed the
\* label from the mapping and pass 3 appends no data block for it.
C4_UseOldDataKeepsBlock ==
  (EmbedDone /\ config.useOldDataFlag) =>
    LET ExtLabels == ExternalLabels(orig, fs0)
        Old(k) == IsDataLine(orig[k]) /\ DataLabel(orig[k]) \in ExtLabels
    IN /\ OccurInOrder(Pick(orig, {k \in 1..Len(orig) : Old(k)}), doc)
       /\ \A k \in 1..Len(orig) :
            Old(k) =>
              /\ DataLabel(orig[k]) \notin DictKeys(dict2)
              /\ \A n \in (Len(doc2) + 1)..Len(doc) :
                   IsDataLine(doc[n]) => DataLabel(doc[n]) # DataLabel(orig[k])

\* --------------------------------------------------------------------
\* C5: with keepUselessDataFlag = false, after the embed action no data
\* block line with a non-empty label is referenced by no image reference of
\* the document; with keepUselessDataFlag = true every data block line of
\* the document with such a label is retained (it is still a line of the
\* document, beginning with the same data block).
C5_UselessData ==
  EmbedDone =>
    LET Stale(k) == /\ IsDataLine(orig[k])
                    /\ DataLabel(orig[k]) # ""
                    /\ DataLabel(orig[k]) \notin RefLabels(doc)
    IN IF config.keepUselessDataFlag
       THEN BeginInOrder(Pick(orig, {k \in 1..Len(orig) : Stale(k)}), doc)
       ELSE \A k \in 1..Len(doc) :
              (IsDataLine(doc[k]) /\ DataLabel(doc[k]) # "") =>
                DataLabel(doc[k]) \in RefLabels(doc)

\* --------------------------------------------------------------------
\* C6: when an image file of the mapping no longer exists at pass 3, the
\* action still finishes; no data block is appended for that entry, and
\* the data blocks of the other entries that have an existing source are
\* appended in the order in which pass 1 first saw their labels.
RECURSIVE FirstSeen(_, _, _)
FirstSeen(entries, i, seen) ==
  IF i > Len(entries) THEN seen
  ELSE IF entries[i].type = NoneVal \/ (\E n \in 1..Len(seen) : seen[n] = entries[i].label)
         THEN FirstSeen(entries, i + 1, seen)
       ELSE FirstSeen(entries, i + 1, Append(seen, entries[i].label))

C6_MissingFileSkipped ==
  EmbedDone =>
    LET Source(l) == DictVal(dict2, l)
        Wanted(l) == /\ DictHas(dict2, l)
                     /\ Source(l) # <<>>
                     /\ Exists(fs, Source(l)[1])
        labels == SelectSeq(FirstSeen(log, 1, <<>>), Wanted)
        blocks == [n \in 1..Len(labels) |->
                     Data(labels[n], Source(labels[n])[2],
                          B64Repr(fs[Source(labels[n])[1]]))]
    IN Flatten(doc) = Flatten(doc2) \o blocks

\* C6's case: pass 3 ran with one file of the mapping gone and another
\* still there.
C6_Witness ==
  /\ EmbedDone
  /\ removed
  /\ \E a, b \in 1..Len(dict2) :
       /\ dict2[a].val # <<>> /\ ~Exists(fs, dict2[a].val[1])
       /\ dict2[b].val # <<>> /\ Exists(fs, dict2[b].val[1])
  /\ Flatten(doc) # Flatten(doc2)

\* --------------------------------------------------------------------
\* C7: in both actions, every line that the classifier classifies as none
\* and that is no data block line is in the document after all passes,
\* verbatim and in the same relative order.
C7_UnclassifiedLinesPassThrough ==
  (pc = "done" /\ run = 1) =>
    LET Inert(k) == log[k].type = NoneVal /\ ~IsDataLine(orig[k])
    IN OccurInOrder(Pick(orig, {k \in 1..Len(orig) : Inert(k)}), doc)

\* --------------------------------------------------------------------
\* The path the rename-only action gives the image of external reference tok.
HashedPath(tok, files) ==
  Path(tok.path.dir, HashLabel(tok, files), tok.path.ext)

\* C8: in the rename-only action, a line whose external
\* reference has a path of 12 or more characters is rewritten only in its
\* path text: the path becomes <label><ext> in the same directory, the
\* parenthesized syntax and the alt text are kept.
C8_RenameChangesOnlyPath ==
  RenameDone =>
    \A i \in 1..Len(orig) :
      (log[i].type = "external" /\ PathLen(log[i].path) >= fileNameThreshold) =>
        LET j == SearchExternal(orig[i].toks)
            tok == orig[i].toks[j]
        IN /\ log[i].printed
           /\ log[i].out =
                [orig[i] EXCEPT !.toks[j] = ExtRef(tok.alt, HashedPath(tok, fs0))]

\* --------------------------------------------------------------------
\* C9: the embed action with the default configuration (both flags off,
\* blank lines ahead of an appended data block) creates no dangling embedded
\* reference: when every image reference of the document is resolvable
\* before the run (an external reference to an existing file with an
\* allowed extension, an embedded reference whose label has a data block)
\* and no file changes during the run, then after the run every embedded
\* reference ![..][L] has a data block line labelled L in the document.
AllResolvable(lines, files) ==
  /\ \A k \in 1..Len(lines) : \A j \in 1..Len(lines[k].toks) :
       lines[k].toks[j].k = "ext" => Resolves(lines[k].toks[j], files)
  /\ RefLabels(lines) \subseteq DataLabels(lines)

C9_NoDanglingReference ==
  (/\ EmbedDone /\ ~removed
   /\ config = DefaultConfig
   /\ AllResolvable(orig, fs0)) =>
    RefLabels(doc) \subseteq DataLabels(doc)

\* --------------------------------------------------------------------
\* C10: the rename-only action keeps references resolvable: every line
\* whose external reference resolved to an existing image file before the
\* run has, where the pass printed it, a path that resolves after the run
\* to an existing file with the same bytes.
C10_RenameKeepsResolvable ==
  RenameDone =>
    \A i \in 1..Len(orig) :
      LET j == SearchExternal(orig[i].toks) IN
      (/\ SearchInternal(orig[i].toks) = 0
       /\ j # 0
       /\ Resolves(orig[i].toks[j], fs0)
       /\ log[i].printed) =>
        LET before == AbsPath(orig[i].toks[j].path)
            after == AbsPath(log[i].out.toks[j].path)
        IN Exists(fs, after) /\ fs[after] = fs0[before]

====
